---- MODULE Spec2Model ----
(***************************************************************************)
(* Provider availability backend: slot generation (SlotGeneratorUtil,      *)
(* TimezoneUtil) and the availability store (AvailabilityService).         *)
(*                                                                         *)
(* Encodings.  A civil time string "HH:mm" is the pair <<HH, mm>>; it is   *)
(* well formed iff HH is in 0..23 and mm in 0..59.  A JS Date is the       *)
(* number of minutes since 2024-01-01T00:00Z.  A calendar date is the      *)
(* number of days since 2024-01-01.  An IANA zone is its name; the zones   *)
(* used here have a fixed UTC offset.                                      *)
(***************************************************************************)
EXTENDS Integers, Sequences, FiniteSets, TLC

VARIABLES
    serverZone,   \* the process's local zone (luxon's default zone)
    config,       \* SlotGenerationConfig under test
    validation,   \* outcome of validateSlotGeneration(config)
    daySlots,     \* outcome of generateSlotsForDay(config)
    totalSlots,   \* outcome of calculateTotalSlots(config)
    recurrence,   \* arguments of generateRecurringSlots
    recurring,    \* outcome of generateRecurringSlots
    now,                 \* the clock read by DateTime.now()
    availabilities,      \* ProviderAvailability table
    appointmentSlots,    \* AppointmentSlot table
    nextAvailabilityId,  \* next generated ProviderAvailability.id
    requests,            \* per client: the request being handled
    budget,              \* requests that may still be issued
    searchRows,          \* AppointmentSlot rows, each with its record and provider
    searchDto,           \* SlotSearchDto of the last search request
    searchResult,        \* outcome of the last search request
    provider,            \* the Provider row of the account logging in
    loginResult,         \* outcome of the last login request
    failedSince,         \* failed password attempts since the last successful
                         \* login and since the last lock was set
    loginAttemptsMap,    \* LoginRateLimiterMiddleware.loginAttemptsMap
    letThrough,          \* per IP: the times of the requests let through
    refreshTokens,       \* RefreshToken table
    refreshCalls,        \* per client: the refreshToken call being handled
    refreshed,           \* the tokens presented by the calls that succeeded
    newSlotList,         \* newSlots of checkForOverlappingSlots
    existingSlotList,    \* existingSlots of checkForOverlappingSlots
    overlapResult,       \* checkForOverlappingSlots(newSlotList, existingSlotList)
    overlapResultSwapped \* checkForOverlappingSlots(existingSlotList, newSlotList)

overlapVars ==
    <<newSlotList, existingSlotList, overlapResult, overlapResultSwapped>>

genVars ==
    <<config, validation, daySlots, totalSlots, recurrence, recurring,
      overlapVars>>

searchVars == <<searchRows, searchDto, searchResult>>

authVars ==
    <<provider, loginResult, failedSince, loginAttemptsMap, letThrough,
      refreshTokens, refreshCalls, refreshed>>

storeVars ==
    <<now, availabilities, appointmentSlots, nextAvailabilityId, requests, budget>>

nonGenVars == <<storeVars, searchVars, authVars>>

nonStoreVars == <<genVars, searchVars, authVars>>

nonSearchVars == <<genVars, storeVars, authVars>>

NotRun == [run |-> FALSE]

-----------------------------------------------------------------------------
(* Calendar (what luxon's calendar arithmetic does on local dates).        *)

MinutesPerDay == 1440

MonthLengths ==
    << 31, 29, 31, 30, 31, 30, 31, 31, 30, 31, 30, 31,
       31, 28, 31, 30, 31, 30, 31, 31, 30, 31, 30, 31 >>

MonthLen(m) == MonthLengths[m + 1]

RECURSIVE SumMonths(_)
SumMonths(m) == IF m = 0 THEN 0 ELSE SumMonths(m - 1) + MonthLen(m - 1)

\* day number of the first day of each month
MonthStarts == [m \in 0..Len(MonthLengths) |-> SumMonths(m)]

MonthStart(m) == MonthStarts[m]

\* month index (0 = January 2024) of a day number
MonthOf(day) ==
    CHOOSE m \in 0..(Len(MonthLengths) - 1) :
        MonthStart(m) <= day /\ day < MonthStart(m) + MonthLen(m)

DayOfMonth(day) == day - MonthStart(MonthOf(day)) + 1

\* day number of year-month-day
Ymd(y, mo, d) == MonthStart((y - 2024) * 12 + mo - 1) + d - 1

Min2(a, b) == IF a <= b THEN a ELSE b

\* calendar date one month later, day of month clamped to the month's length
PlusMonthsDay(day, n) ==
    LET m == MonthOf(day) + n
    IN MonthStart(m) + Min2(DayOfMonth(day), MonthLen(m)) - 1

-----------------------------------------------------------------------------
(* Zones.                                                                  *)

\* the names the runtime's zone database resolves
resolves(zone) == zone \in { "UTC", "Asia/Kolkata", "America/Phoenix" }

\* a name that is not in the zone database
UnknownZone == "Mars/Olympus"

\* new Date(NaN), what toJSDate() gives for an invalid DateTime: a value
\* that is no instant (every instant used here is positive)
InvalidDate == -1000000

ZoneOffset(zone) ==
    CASE zone = "UTC"             -> 0
      [] zone = "Asia/Kolkata"    -> 330
      [] zone = "America/Phoenix" -> -420

\* DateTime.fromJSDate(date).plus({days}) / plus({months}) in the local zone:
\* the local wall-clock time is kept, the local calendar date is advanced.
plusLocal(date, zone, unit, n) ==
    LET local    == date + ZoneOffset(zone)
        localDay == local \div MinutesPerDay
        timeOfDay == local % MinutesPerDay
        newDay   == IF unit = "months" THEN PlusMonthsDay(localDay, n)
                    ELSE localDay + n
    IN newDay * MinutesPerDay + timeOfDay - ZoneOffset(zone)

-----------------------------------------------------------------------------
(* TimezoneUtil                                                            *)

isValidHHmm(time) ==
    /\ time[1] \in 0..23
    /\ time[2] \in 0..59

\* DateTime.fromFormat(time, 'HH:mm') as minutes after local midnight
parseHHmm(time) == time[1] * 60 + time[2]

\* toFormat('HH:mm'): the time of day only, the date part is dropped
formatHHmm(minutes) == << (minutes \div 60) % 24, minutes % 60 >>

\* fromISO with a zone that does not resolve gives an invalid DateTime
toUTC(date, time, timezone) ==
    LET isoDate == date \div MinutesPerDay
    IN IF ~resolves(timezone) THEN InvalidDate
       ELSE isoDate * MinutesPerDay + parseHHmm(time) - ZoneOffset(timezone)

\* setZone never throws (luxon returns an invalid DateTime instead)
isValidTimezone(timezone) == TRUE

\* result is [threw |-> BOOLEAN, value |-> ...]
calculateDuration(startTime, endTime) ==
    IF ~isValidHHmm(startTime) \/ ~isValidHHmm(endTime)
    THEN [threw |-> TRUE, value |-> 0]
    ELSE [threw |-> FALSE, value |-> parseHHmm(endTime) - parseHHmm(startTime)]

addMinutes(time, minutes) == formatHHmm(parseHHmm(time) + minutes)

-----------------------------------------------------------------------------
(* SlotGeneratorUtil                                                       *)

isTimeBefore(time1, time2) ==
    IF ~isValidHHmm(time1) \/ ~isValidHHmm(time2)
    THEN [threw |-> TRUE, value |-> FALSE]
    ELSE [threw |-> FALSE, value |-> parseHHmm(time1) < parseHHmm(time2)]

\* a comparison that never reports equality
isTimeEqualNever(time1, time2) ==
    IF ~isValidHHmm(time1) \/ ~isValidHHmm(time2)
    THEN [threw |-> TRUE, value |-> FALSE]
    ELSE [threw |-> FALSE, value |-> FALSE]

isTimeEqual(time1, time2) ==
    IF ~isValidHHmm(time1) \/ ~isValidHHmm(time2)
    THEN [threw |-> TRUE, value |-> FALSE]
    ELSE [threw |-> FALSE, value |-> parseHHmm(time1) = parseHHmm(time2)]

isValidTimeFormat(time) == isValidHHmm(time)

ErrStart    == "Invalid start time format. Use HH:mm format."
ErrEnd      == "Invalid end time format. Use HH:mm format."
ErrRange    == "End time must be after start time."
ErrSlot     == "Slot duration must be greater than 0."
ErrBreak    == "Break duration cannot be negative."
ErrZone     == "Invalid timezone."
ErrTooLong  == "Slot duration cannot be greater than total availability duration."

If(cond, err) == IF cond THEN <<err>> ELSE <<>>

\* validateSlotGeneration without its last check
validateWithoutTooLong(cfg) ==
    LET before   == isTimeBefore(cfg.endTime, cfg.startTime)
        duration == calculateDuration(cfg.startTime, cfg.endTime)
    IN IF before.threw \/ duration.threw
       THEN [threw |-> TRUE, errors |-> <<>>]
       ELSE [threw |-> FALSE,
             errors |->
                 If(~isValidTimeFormat(cfg.startTime), ErrStart)
              \o If(~isValidTimeFormat(cfg.endTime), ErrEnd)
              \o If(before.value, ErrRange)
              \o If(cfg.slotDuration <= 0, ErrSlot)
              \o If(cfg.breakDuration < 0, ErrBreak)
              \o If(~isValidTimezone(cfg.timezone), ErrZone)]

\* result is [threw |-> BOOLEAN, errors |-> sequence of messages]
validateSlotGeneration(cfg) ==
    LET before   == isTimeBefore(cfg.endTime, cfg.startTime)
        duration == calculateDuration(cfg.startTime, cfg.endTime)
    IN IF before.threw \/ duration.threw
       THEN [threw |-> TRUE, errors |-> <<>>]
       ELSE [threw |-> FALSE,
             errors |->
                 If(~isValidTimeFormat(cfg.startTime), ErrStart)
              \o If(~isValidTimeFormat(cfg.endTime), ErrEnd)
              \o If(before.value, ErrRange)
              \o If(cfg.slotDuration <= 0, ErrSlot)
              \o If(cfg.breakDuration < 0, ErrBreak)
              \o If(~isValidTimezone(cfg.timezone), ErrZone)
              \o If(cfg.slotDuration > duration.value, ErrTooLong)]

\* The while loop of generateSlotsForDay.  The loop's only state besides the
\* output is currentTime, so the loop runs forever exactly when currentTime
\* comes back to a value it had at an earlier loop test (seen).  wrapped
\* records that an addMinutes result passed midnight.
RECURSIVE generateLoop(_, _, _, _, _)
generateLoop(cfg, currentTime, slots, seen, wrapped) ==
    IF ~isTimeBefore(currentTime, cfg.endTime).value
    THEN [terminates |-> TRUE, slots |-> slots, wrapped |-> wrapped]
    ELSE IF currentTime \in seen
    THEN [terminates |-> FALSE, slots |-> slots, wrapped |-> wrapped]
    ELSE
      LET slotEndTime == addMinutes(currentTime, cfg.slotDuration)
          fits == \/ isTimeBefore(slotEndTime, cfg.endTime).value
                  \/ isTimeEqual(slotEndTime, cfg.endTime).value
          slot == [startTime     |-> currentTime,
                   endTime       |-> slotEndTime,
                   slotStartTime |-> toUTC(cfg.date, currentTime, cfg.timezone),
                   slotEndTime   |-> toUTC(cfg.date, slotEndTime, cfg.timezone)]
          next == addMinutes(slotEndTime, cfg.breakDuration)
          passed == parseHHmm(currentTime) + cfg.slotDuration
                        + cfg.breakDuration >= MinutesPerDay
      IN generateLoop(cfg, next,
                      IF fits THEN Append(slots, slot) ELSE slots,
                      seen \cup {currentTime},
                      wrapped \/ passed)

generateSlotsForDay(cfg) == generateLoop(cfg, cfg.startTime, <<>>, {}, FALSE)

getNextDate(currentDate, pattern, zone) ==
    CASE pattern = "daily"   -> plusLocal(currentDate, zone, "days", 1)
      [] pattern = "weekly"  -> plusLocal(currentDate, zone, "days", 7)
      [] pattern = "monthly" -> plusLocal(currentDate, zone, "months", 1)

RECURSIVE recurringLoop(_, _, _, _, _, _)
recurringLoop(cfg, pattern, endDate, zone, currentDate, slots) ==
    IF ~(currentDate <= endDate)
    THEN [terminates |-> TRUE, slots |-> slots]
    ELSE LET day == generateSlotsForDay([cfg EXCEPT !.date = currentDate])
         IN IF ~day.terminates
            THEN [terminates |-> FALSE, slots |-> slots]
            ELSE recurringLoop(cfg, pattern, endDate, zone,
                               getNextDate(currentDate, pattern, zone),
                               slots \o day.slots)

generateRecurringSlots(cfg, pattern, endDate, zone) ==
    recurringLoop(cfg, pattern, endDate, zone, cfg.date, <<>>)

calculateTotalSlots(cfg) ==
    LET totalMinutes  == calculateDuration(cfg.startTime, cfg.endTime).value
        slotWithBreak == cfg.slotDuration + cfg.breakDuration
    IN totalMinutes \div slotWithBreak

\* a comparison with an invalid Date (NaN) is false
\* overlap on closed intervals: touching slots count
slotsOverlapClosed(slot1, slot2) ==
    /\ InvalidDate \notin { slot1.slotStartTime, slot1.slotEndTime,
                            slot2.slotStartTime, slot2.slotEndTime }
    /\ slot1.slotStartTime <= slot2.slotEndTime
    /\ slot2.slotStartTime <= slot1.slotEndTime

slotsOverlap(slot1, slot2) ==
    /\ InvalidDate \notin { slot1.slotStartTime, slot1.slotEndTime,
                            slot2.slotStartTime, slot2.slotEndTime }
    /\ slot1.slotStartTime < slot2.slotEndTime
    /\ slot2.slotStartTime < slot1.slotEndTime

\* reports the new slots that start inside an existing slot
checkForSlotsStartingInside(newSlots, existingSlots) ==
    SelectSeq(newSlots,
              LAMBDA n : \E i \in 1..Len(existingSlots) :
                             /\ existingSlots[i].slotStartTime <= n.slotStartTime
                             /\ n.slotStartTime < existingSlots[i].slotEndTime)

checkForOverlappingSlots(newSlots, existingSlots) ==
    SelectSeq(newSlots,
              LAMBDA n : \E i \in 1..Len(existingSlots) :
                             slotsOverlap(n, existingSlots[i]))

-----------------------------------------------------------------------------
(* Inputs of the slot generator                                            *)

Times == { <<9, 0>>, <<9, 40>>, <<17, 0>>, <<23, 0>>, <<23, 59>>, <<25, 0>> }
SlotDurations  == { 0, 30, 45, 480 }
BreakDurations == { -5, 0, 15 }
Zones          == { "UTC", "Asia/Kolkata", "America/Phoenix" }
ServerZones    == { "UTC", "America/Phoenix" }
Dates          == { Ymd(2024, 8, 1), Ymd(2024, 3, 1), Ymd(2024, 1, 31) }
EndDates       == { Ymd(2024, 8, 15), Ymd(2024, 4, 1), Ymd(2024, 7, 31) }
Patterns       == { "daily", "weekly", "monthly" }

\* longest daily recurrence explored, in days
MaxDailySpan == 20

Configs ==
    [ startTime : Times, endTime : Times,
      slotDuration : SlotDurations, breakDuration : BreakDurations,
      timezone : Zones, date : { d * MinutesPerDay : d \in Dates } ]

isValidConfig(cfg) ==
    LET v == validateSlotGeneration(cfg) IN ~v.threw /\ v.errors = <<>>

-----------------------------------------------------------------------------
(* AvailabilityService: the operations on the store                        *)

Providers == { "p1", "p2" }

NoDate    == -1       \* recurrence_end_date absent
NoPattern == "none"   \* recurrence_pattern absent
NoValue   == "none"   \* optional field of a patch absent

\* every value of the DTO's AvailabilityStatus enum
EveryStatus == { "available", "booked", "cancelled", "blocked", "maintenance" }

UpdatableStatuses == { "available", "blocked", "cancelled" }

configOf(dto) ==
    [ startTime     |-> dto.start_time,
      endTime       |-> dto.end_time,
      slotDuration  |-> dto.slot_duration,
      breakDuration |-> dto.break_duration,
      timezone      |-> dto.timezone,
      date          |-> dto.date * MinutesPerDay ]

RECURSIVE SeqOf(_)
SeqOf(set) ==
    IF set = {} THEN <<>>
    ELSE LET x == CHOOSE y \in set : TRUE IN <<x>> \o SeqOf(set \ {x})

formatTimeForDisplay(date, timezone) ==
    IF ~resolves(timezone) THEN "Invalid DateTime"
    ELSE formatHHmm((date + ZoneOffset(timezone)) % MinutesPerDay)

\* result is [hangs |-> BOOLEAN, count |-> number of overlapping new slots]
checkAvailabilityConflicts(rows, providerId, cfg, zone) ==
    LET existingSlots ==
            { r \in rows :
                /\ r.providerId = providerId
                /\ r.slotStartTime >= cfg.date
                /\ r.slotStartTime < plusLocal(cfg.date, zone, "days", 1) }
    IN IF existingSlots = {}
       THEN [hangs |-> FALSE, count |-> 0]
       ELSE
         LET newSlots == generateSlotsForDay(cfg)
             existingGeneratedSlots ==
                 SeqOf({ [ startTime |-> formatTimeForDisplay(r.slotStartTime, cfg.timezone),
                           endTime   |-> formatTimeForDisplay(r.slotEndTime, cfg.timezone),
                           slotStartTime |-> r.slotStartTime,
                           slotEndTime   |-> r.slotEndTime ] : r \in existingSlots })
         IN IF ~newSlots.terminates
            THEN [hangs |-> TRUE, count |-> 0]
            ELSE [hangs |-> FALSE,
                  count |-> Len(checkForOverlappingSlots(newSlots.slots,
                                                         existingGeneratedSlots))]

\* the end date used when the request is recurring
recurrenceEnd(dto, nowDate, zone) ==
    IF dto.recurrence_end_date # NoDate
    THEN dto.recurrence_end_date * MinutesPerDay
    ELSE plusLocal(nowDate, zone, "months", 3)

\* result is [terminates |-> BOOLEAN, slots |-> sequence of GeneratedSlot]
generateSlots(dto, nowDate, zone) ==
    IF dto.is_recurring /\ dto.recurrence_pattern # NoPattern
    THEN generateRecurringSlots(configOf(dto), dto.recurrence_pattern,
                                recurrenceEnd(dto, nowDate, zone), zone)
    ELSE LET day == generateSlotsForDay(configOf(dto))
         IN [terminates |-> day.terminates, slots |-> day.slots]

availabilityRecord(id, providerId, dto) ==
    [ id                |-> id,
      providerId        |-> providerId,
      date              |-> dto.date * MinutesPerDay,
      startTime         |-> dto.start_time,
      endTime           |-> dto.end_time,
      timezone          |-> dto.timezone,
      isRecurring       |-> dto.is_recurring,
      recurrencePattern |-> dto.recurrence_pattern,
      recurrenceEndDate |-> dto.recurrence_end_date,
      slotDuration      |-> dto.slot_duration,
      breakDuration     |-> dto.break_duration,
      appointmentType   |-> dto.appointment_type,
      status            |-> "available" ]

slotRows(availabilityId, providerId, dto, slots) ==
    { [ id              |-> <<availabilityId, i>>,
        availabilityId  |-> availabilityId,
        providerId      |-> providerId,
        slotStartTime   |-> slots[i].slotStartTime,
        slotEndTime     |-> slots[i].slotEndTime,
        status          |-> "available",
        appointmentType |-> dto.appointment_type ] : i \in 1..Len(slots) }

\* prisma.$transaction: the writes made so far are kept only on commit
transactionKeepsPartial(before, reached, committed) == reached

transaction(before, reached, committed) ==
    IF committed THEN reached ELSE before

-----------------------------------------------------------------------------
(* Requests against the store.  A handler is split where it awaits the     *)
(* database, so that concurrent requests interleave at those points.       *)

Procs == { 1, 2 }

\* requests issued in one behaviour: one at a time, and interleaved
MaxRequests == 3
MaxConcurrentRequests == 2

\* external bookings in one behaviour
MaxBookings == 1

D0 == Ymd(2024, 8, 1)
D1 == Ymd(2024, 8, 2)

BaseDto ==
    [ date |-> D1, start_time |-> <<9, 0>>, end_time |-> <<10, 0>>,
      timezone |-> "UTC", slot_duration |-> 30, break_duration |-> 0,
      is_recurring |-> FALSE, recurrence_pattern |-> NoPattern,
      recurrence_end_date |-> NoDate, appointment_type |-> "consultation" ]

CreateDtos ==
    { BaseDto,
      [BaseDto EXCEPT !.start_time = <<9, 30>>, !.end_time = <<10, 30>>],
      [BaseDto EXCEPT !.date = D0, !.is_recurring = TRUE,
                      !.recurrence_pattern = "daily",
                      !.recurrence_end_date = D1],
      [BaseDto EXCEPT !.date = D0, !.is_recurring = TRUE,
                      !.recurrence_pattern = "monthly"],
      [BaseDto EXCEPT !.timezone = "America/Phoenix",
                      !.start_time = <<17, 0>>, !.end_time = <<18, 0>>],
      [BaseDto EXCEPT !.start_time = <<10, 0>>, !.end_time = <<9, 0>>],
      [BaseDto EXCEPT !.start_time = <<25, 0>>],
      [BaseDto EXCEPT !.timezone = UnknownZone],
      [BaseDto EXCEPT !.start_time = <<23, 0>>, !.end_time = <<23, 59>>] }

\* who asks for what: every request shape for p1, one for the others
CreateInputs ==
    ({ "p1" } \X CreateDtos) \cup ({ "p2", "nobody" } \X { BaseDto })

Patches ==
    { [status |-> "cancelled", appointment_type |-> NoValue],
      [status |-> "available", appointment_type |-> NoValue],
      [status |-> "booked",    appointment_type |-> "follow_up"],
      [status |-> NoValue,     appointment_type |-> "follow_up"] }

\* update and delete requests address the first slots of an availability
MaxTargetIndex == 1

\* 2024-03-10T10:00Z and 2024-07-20T10:00Z
Nows == { Ymd(2024, 3, 10) * MinutesPerDay + 600,
          Ymd(2024, 7, 20) * MinutesPerDay + 600 }

MissingSlotId == <<0, 0>>

TargetSlotIds ==
    { s.id : s \in { t \in appointmentSlots : t.id[2] <= MaxTargetIndex } }
        \cup { MissingSlotId }

Idle == [op |-> "none", pc |-> "idle", outcome |-> "none", raced |-> FALSE]

Finished(r) == r.pc \in { "idle", "done" }
InFlight(r) == ~Finished(r)
NoneHung    == \A q \in Procs : requests[q].pc # "hung"

store == [availabilities |-> availabilities, appointmentSlots |-> appointmentSlots]

MayBegin(p, sequential) ==
    /\ NoneHung
    /\ Finished(requests[p])
    /\ budget.requests > 0
    /\ sequential => p = 1 /\ \A q \in Procs : Finished(requests[q])

\* p's new request; requests in flight at that moment have raced with it
Begun(p, r) ==
    [ q \in Procs |->
        IF q = p
        THEN r @@ [raced |-> \E o \in Procs \ {p} : InFlight(requests[o])]
        ELSE IF InFlight(requests[q])
             THEN [requests[q] EXCEPT !.raced = TRUE]
             ELSE requests[q] ]

Finish(p, outcome) ==
    [requests EXCEPT ![p].pc = "done", ![p].outcome = outcome]

\* createAvailability, up to the first read of the slot table:
\* provider lookup, timezone check, validateSlotGeneration
CreateBegin(p, sequential) ==
    /\ MayBegin(p, sequential)
    /\ \E input \in CreateInputs :
         LET providerId == input[1]
             dto == input[2]
             v == validateSlotGeneration(configOf(dto))
             r == [ op |-> "create", providerId |-> providerId, dto |-> dto,
                    before |-> store, count |-> 0, slots |-> <<>>,
                    failAt |-> "none",
                    pc |-> IF providerId \in Providers /\ ~v.threw
                              /\ isValidTimezone(dto.timezone) /\ v.errors = <<>>
                           THEN "check" ELSE "done",
                    outcome |->
                        IF providerId \notin Providers THEN "NotFound"
                        ELSE IF ~isValidTimezone(dto.timezone) THEN "InvalidRequest"
                        ELSE IF v.threw THEN "InternalError"
                        ELSE IF v.errors # <<>> THEN "InvalidRequest"
                        ELSE "none" ]
         IN requests' = Begun(p, r)
    /\ budget' = [budget EXCEPT !.requests = @ - 1]
    /\ UNCHANGED <<now, availabilities, appointmentSlots, nextAvailabilityId, serverZone, nonStoreVars>>

\* checkAvailabilityConflicts reads the slot table; the slots are generated
CreateCheck(p) ==
    /\ NoneHung
    /\ requests[p].pc = "check"
    /\ LET r == requests[p]
           c == checkAvailabilityConflicts(appointmentSlots, r.providerId,
                                           configOf(r.dto), serverZone)
           g == generateSlots(r.dto, now, serverZone)
       IN requests' =
            IF c.hangs THEN [requests EXCEPT ![p].pc = "hung"]
            ELSE IF c.count > 0
            THEN [requests EXCEPT ![p].pc = "done", ![p].outcome = "Conflict",
                                  ![p].count = c.count]
            ELSE IF ~g.terminates THEN [requests EXCEPT ![p].pc = "hung"]
            ELSE [requests EXCEPT ![p].pc = "transaction", ![p].slots = g.slots]
    /\ UNCHANGED <<now, availabilities, appointmentSlots, nextAvailabilityId, budget, serverZone, nonStoreVars>>

\* the $transaction: create the record, createMany the slot rows; either
\* write may fail, which rolls the transaction back
CreateTransaction(p) ==
    /\ NoneHung
    /\ requests[p].pc = "transaction"
    /\ \E failAt \in { "none", "record", "slots" } :
         \* createMany rejects a row that holds an invalid Date
         /\ (\E i \in 1..Len(requests[p].slots) :
                requests[p].slots[i].slotStartTime = InvalidDate)
            => failAt # "none"
         /\ LET r          == requests[p]
                id         == nextAvailabilityId
                withRecord == [store EXCEPT !.availabilities =
                                  @ \cup { availabilityRecord(id, r.providerId, r.dto) }]
                withSlots  == [withRecord EXCEPT !.appointmentSlots =
                                  @ \cup slotRows(id, r.providerId, r.dto, r.slots)]
                reached    == CASE failAt = "record" -> store
                                [] failAt = "slots"  -> withRecord
                                [] failAt = "none"   -> withSlots
                after      == transaction(store, reached, failAt = "none")
            IN /\ availabilities' = after.availabilities
               /\ appointmentSlots' = after.appointmentSlots
               /\ nextAvailabilityId' = IF failAt = "none" THEN id + 1 ELSE id
               /\ requests' = [requests EXCEPT
                     ![p].pc = "done", ![p].failAt = failAt,
                     ![p].count = IF failAt = "none" THEN Len(r.slots) ELSE 0,
                     ![p].outcome = IF failAt = "none" THEN "ok"
                                    ELSE "PersistenceError"]
    /\ UNCHANGED <<now, budget, serverZone, nonStoreVars>>

\* a lookup by id alone
findFirstAnyProvider(rows, slotId, providerId) ==
    { s \in rows : s.id = slotId }

\* appointmentSlot.findFirst({ where: { id: slotId, providerId } })
findFirst(rows, slotId, providerId) ==
    { s \in rows : s.id = slotId /\ s.providerId = providerId }

\* updateAvailabilitySlot: findFirst, the NotFound and booked checks
UpdateBegin(p, sequential) ==
    /\ MayBegin(p, sequential)
    /\ \E slotId \in TargetSlotIds,
          providerId \in Providers, patch \in Patches :
         LET found == findFirst(appointmentSlots, slotId, providerId)
             slot  == CHOOSE s \in found : TRUE
             r == [ op |-> "update", slotId |-> slotId,
                    providerId |-> providerId, patch |-> patch,
                    before |-> store,
                    updateData |->
                        IF found = {} THEN [appointmentType |-> NoValue,
                                            status |-> NoValue]
                        ELSE [ appointmentType |->
                                  IF patch.appointment_type # NoValue
                                  THEN patch.appointment_type
                                  ELSE slot.appointmentType,
                               status |->
                                  IF patch.status # NoValue
                                     /\ patch.status \in UpdatableStatuses
                                  THEN patch.status ELSE NoValue ],
                    pc |-> IF found # {} /\ slot.status # "booked"
                           THEN "update" ELSE "done",
                    outcome |-> IF found = {} THEN "NotFound"
                                ELSE IF slot.status = "booked" THEN "Conflict"
                                ELSE "none" ]
         IN requests' = Begun(p, r)
    /\ budget' = [budget EXCEPT !.requests = @ - 1]
    /\ UNCHANGED <<now, availabilities, appointmentSlots, nextAvailabilityId, serverZone, nonStoreVars>>

\* appointmentSlot.update({ where: { id }, data: updateData })
UpdateWrite(p) ==
    /\ NoneHung
    /\ requests[p].pc = "update"
    /\ LET r == requests[p]
           present == \E s \in appointmentSlots : s.id = r.slotId
       IN /\ appointmentSlots' =
               { IF s.id = r.slotId
                 THEN [s EXCEPT !.appointmentType = r.updateData.appointmentType,
                                !.status = IF r.updateData.status # NoValue
                                           THEN r.updateData.status ELSE @]
                 ELSE s : s \in appointmentSlots }
          /\ requests' = Finish(p, IF present THEN "ok" ELSE "PersistenceError")
    /\ UNCHANGED <<now, availabilities, nextAvailabilityId, budget, serverZone, nonStoreVars>>

\* deleteAvailabilitySlot: findFirst, the NotFound and booked checks
DeleteBegin(p, sequential) ==
    /\ MayBegin(p, sequential)
    /\ \E slotId \in TargetSlotIds,
          providerId \in Providers, deleteRecurring \in BOOLEAN :
         LET found == findFirst(appointmentSlots, slotId, providerId)
             slot  == CHOOSE s \in found : TRUE
             availability == CHOOSE a \in availabilities : a.id = slot.availabilityId
             r == [ op |-> "delete", slotId |-> slotId,
                    providerId |-> providerId,
                    deleteRecurring |-> deleteRecurring,
                    before |-> store,
                    availabilityId |-> IF found = {} THEN 0
                                       ELSE slot.availabilityId,
                    pc |-> IF found = {} \/ slot.status = "booked" THEN "done"
                           ELSE IF deleteRecurring /\ availability.isRecurring
                           THEN "deleteMany" ELSE "delete",
                    outcome |-> IF found = {} THEN "NotFound"
                                ELSE IF slot.status = "booked" THEN "Conflict"
                                ELSE "none" ]
         IN requests' = Begun(p, r)
    /\ budget' = [budget EXCEPT !.requests = @ - 1]
    /\ UNCHANGED <<now, availabilities, appointmentSlots, nextAvailabilityId, serverZone, nonStoreVars>>

\* appointmentSlot.delete({ where: { id } })
DeleteSingle(p) ==
    /\ NoneHung
    /\ requests[p].pc = "delete"
    /\ LET r == requests[p]
           present == \E s \in appointmentSlots : s.id = r.slotId
       IN /\ appointmentSlots' = { s \in appointmentSlots : s.id # r.slotId }
          /\ requests' = Finish(p, IF present THEN "ok" ELSE "PersistenceError")
    /\ UNCHANGED <<now, availabilities, nextAvailabilityId, budget, serverZone, nonStoreVars>>

\* a deleteMany without the status filter
deleteManyOfRecord(rows, availabilityId) ==
    { s \in rows : s.availabilityId # availabilityId }

\* appointmentSlot.deleteMany({ availabilityId, status: { not: 'booked' } })
deleteMany(rows, availabilityId) ==
    { s \in rows : ~(s.availabilityId = availabilityId /\ s.status # "booked") }

DeleteSeries(p) ==
    /\ NoneHung
    /\ requests[p].pc = "deleteMany"
    /\ appointmentSlots' = deleteMany(appointmentSlots, requests[p].availabilityId)
    /\ requests' = [requests EXCEPT ![p].pc = "cancel"]
    /\ UNCHANGED <<now, availabilities, nextAvailabilityId, budget, serverZone, nonStoreVars>>

\* an update that writes nothing
cancelNothing(records, id) == records

\* providerAvailability.update({ where: { id }, data: { status: 'cancelled' } })
cancelRecord(records, id) ==
    { IF a.id = id THEN [a EXCEPT !.status = "cancelled"] ELSE a : a \in records }

\* the second write of a series deletion; like any write it can be refused
\* by the database, and the deleteMany before it is not undone
DeleteCancel(p) ==
    /\ NoneHung
    /\ requests[p].pc = "cancel"
    /\ \E failed \in BOOLEAN :
         /\ availabilities' =
               IF failed THEN availabilities
               ELSE cancelRecord(availabilities, requests[p].availabilityId)
         /\ requests' = Finish(p, IF failed THEN "PersistenceError" ELSE "ok")
    /\ UNCHANGED <<now, appointmentSlots, nextAvailabilityId, budget, serverZone, nonStoreVars>>

\* the booking flow outside this service turns an available slot to booked
BookSlot(sequential) ==
    /\ NoneHung
    /\ budget.bookings > 0
    /\ sequential => \A q \in Procs : Finished(requests[q])
    /\ \E slot \in appointmentSlots :
         /\ slot.status = "available"
         /\ appointmentSlots' =
              (appointmentSlots \ {slot}) \cup { [slot EXCEPT !.status = "booked"] }
    /\ budget' = [budget EXCEPT !.bookings = @ - 1]
    /\ UNCHANGED <<now, availabilities, nextAvailabilityId, requests, serverZone, nonStoreVars>>

GenIdle ==
    /\ config = NotRun
    /\ validation = NotRun
    /\ daySlots = NotRun
    /\ totalSlots = NotRun
    /\ recurrence = NotRun
    /\ recurring = NotRun
    /\ newSlotList = <<>>
    /\ existingSlotList = <<>>
    /\ overlapResult = NotRun
    /\ overlapResultSwapped = NotRun

AuthIdle ==
    /\ provider = NotRun
    /\ loginResult = NotRun
    /\ failedSince = 0
    /\ loginAttemptsMap = {}
    /\ letThrough = <<>>
    /\ refreshTokens = {}
    /\ refreshCalls = <<>>
    /\ refreshed = <<>>

SearchIdle ==
    /\ searchRows = <<>>
    /\ searchDto = NotRun
    /\ searchResult = NotRun

StoreIdle ==
    /\ now = 0
    /\ availabilities = {}
    /\ appointmentSlots = {}
    /\ nextAvailabilityId = 1
    /\ requests = [p \in Procs |-> Idle]
    /\ budget = [requests |-> 0, bookings |-> 0]

EmptyStore(maxRequests) ==
    /\ serverZone \in ServerZones
    /\ now \in Nows
    /\ availabilities = {}
    /\ appointmentSlots = {}
    /\ nextAvailabilityId = 1
    /\ requests = [p \in Procs |-> Idle]
    /\ budget = [requests |-> maxRequests, bookings |-> MaxBookings]
    /\ GenIdle
    /\ SearchIdle
    /\ AuthIdle

InitStore == EmptyStore(MaxRequests)

InitConcurrent == EmptyStore(MaxConcurrentRequests)

\* requests handled one at a time
NextStore ==
    \/ \E p \in Procs : CreateBegin(p, TRUE)
    \/ \E p \in Procs : CreateCheck(p)
    \/ \E p \in Procs : CreateTransaction(p)
    \/ \E p \in Procs : UpdateBegin(p, TRUE)
    \/ \E p \in Procs : UpdateWrite(p)
    \/ \E p \in Procs : DeleteBegin(p, TRUE)
    \/ \E p \in Procs : DeleteSingle(p)
    \/ \E p \in Procs : DeleteSeries(p)
    \/ \E p \in Procs : DeleteCancel(p)
    \/ BookSlot(TRUE)

\* requests interleaved at their awaits
NextConcurrent ==
    \/ \E p \in Procs : CreateBegin(p, FALSE)
    \/ \E p \in Procs : CreateCheck(p)
    \/ \E p \in Procs : CreateTransaction(p)
    \/ \E p \in Procs : UpdateBegin(p, FALSE)
    \/ \E p \in Procs : UpdateWrite(p)
    \/ \E p \in Procs : DeleteBegin(p, FALSE)
    \/ \E p \in Procs : DeleteSingle(p)
    \/ \E p \in Procs : DeleteSeries(p)
    \/ \E p \in Procs : DeleteCancel(p)
    \/ BookSlot(FALSE)

-----------------------------------------------------------------------------
(* AvailabilityService.searchAvailableSlots.  A SlotSearchDto is a record  *)
(* that holds the supplied fields only.                                    *)

\* JavaScript truthiness of an optional field
truthyNumber(dto, f) == f \in DOMAIN dto /\ dto[f] # 0
truthyString(dto, f) == f \in DOMAIN dto /\ dto[f] # ""
truthyFlag(dto, f)   == f \in DOMAIN dto /\ dto[f]

\* class-validator rules of SlotSearchDto, applied by the ValidationPipe
inRange(dto, f, lo, hi) == f \in DOMAIN dto => (lo <= dto[f] /\ dto[f] <= hi)

validSearchDto(dto) ==
    /\ inRange(dto, "min_duration", 15, 480)
    /\ inRange(dto, "max_price", 0, 10000)
    /\ inRange(dto, "limit", 1, 100)
    /\ "offset" \in DOMAIN dto => dto.offset >= 0

\* haystack.toLowerCase().includes(needle.toLowerCase()), for the names used
includesLower(haystack, needle) ==
    <<haystack, needle>> \in
        { <<"Cardiology", "cardio">>, <<"Pune", "pune">>,
          <<"Maharashtra", "maha">>, <<"Dermatology", "derma">> }

\* the where clause handed to appointmentSlot.findMany
whereMatches(row, dto, nowDate, zone) ==
    /\ row.status = "available"
    /\ IF truthyNumber(dto, "date")
       THEN /\ row.slotStartTime >= dto.date * MinutesPerDay
            /\ row.slotStartTime <
                   plusLocal(dto.date * MinutesPerDay, zone, "days", 1)
       ELSE IF truthyNumber(dto, "start_date") /\ truthyNumber(dto, "end_date")
       THEN /\ row.slotStartTime >= dto.start_date * MinutesPerDay
            /\ row.slotStartTime <= dto.end_date * MinutesPerDay
       ELSE TRUE
    /\ truthyString(dto, "provider_id") => row.providerId = dto.provider_id
    /\ truthyString(dto, "appointment_type") =>
           row.appointmentType = dto.appointment_type
    /\ truthyNumber(dto, "min_duration") =>
           row.slotEndTime >= nowDate + dto.min_duration

\* orderBy: { slotStartTime: 'asc' }, rows of equal start time by id
precedes(a, b) ==
    \/ a.slotStartTime < b.slotStartTime
    \/ a.slotStartTime = b.slotStartTime /\ a.id < b.id

\* an ordering by id alone
orderById(rows) == SortSeq(rows, LAMBDA a, b : a.id < b.id)

orderBy(rows) == SortSeq(rows, precedes)

skip(seq, n) == SubSeq(seq, n + 1, Len(seq))

\* a take that returns every row
takeAll(seq, n) == seq

take(seq, n) == SubSeq(seq, 1, Min2(n, Len(seq)))

\* the filters applied in memory to the page that findMany returned
memoryFilters(row, dto) ==
    /\ truthyString(dto, "specialization") =>
           includesLower(row.specialization, dto.specialization)
    /\ truthyString(dto, "location") =>
           \/ includesLower(row.clinicCity, dto.location)
           \/ includesLower(row.clinicState, dto.location)
    /\ truthyFlag(dto, "virtual_only") =>
           (row.location.has /\ row.location.type = "virtual")
    /\ truthyFlag(dto, "in_person_only") =>
           (row.location.has /\ row.location.type # "virtual")
    /\ truthyNumber(dto, "max_price") =>
           (~row.pricing.has \/ row.pricing.base_fee <= dto.max_price)

searchAvailableSlots(rows, dto, nowDate, zone) ==
    LET slots == take(skip(orderBy(SelectSeq(rows, LAMBDA r :
                                        whereMatches(r, dto, nowDate, zone))),
                           IF truthyNumber(dto, "offset") THEN dto.offset ELSE 0),
                      IF truthyNumber(dto, "limit") THEN dto.limit ELSE 50)
        filteredSlots == SelectSeq(slots, LAMBDA r : memoryFilters(r, dto))
    IN [ i \in 1..Len(filteredSlots) |->
           [ id              |-> filteredSlots[i].id,
             slot_start_time |-> filteredSlots[i].slotStartTime,
             slot_end_time   |-> filteredSlots[i].slotEndTime,
             appointment_type |-> filteredSlots[i].appointmentType,
             location        |-> filteredSlots[i].location,
             pricing         |-> filteredSlots[i].pricing ] ]

\* rows in the largest table searched
MaxRows == 120

SearchTableSizes == { 0, 3, MaxRows }

\* row i of a table of n rows: two rows share each start time, the statuses,
\* providers, types, locations and prices vary with i
tableRow(i, n) ==
    LET start == Ymd(2024, 8, 1) * MinutesPerDay + 30 * (((i * 7) % n) \div 2)
    IN [ id              |-> i,
         providerId      |-> IF i % 2 = 0 THEN "p1" ELSE "p2",
         slotStartTime   |-> start,
         slotEndTime     |-> start + 30,
         status          |-> CASE i % 20 = 2  -> "booked"
                               [] i % 20 = 13 -> "cancelled"
                               [] OTHER       -> "available",
         appointmentType |-> IF i % 3 = 0 THEN "follow_up" ELSE "consultation",
         location        |-> CASE i % 4 = 0 -> [has |-> FALSE]
                               [] i % 4 = 1 -> [has |-> TRUE, type |-> "virtual"]
                               [] OTHER     -> [has |-> TRUE, type |-> "clinic"],
         pricing         |-> CASE i % 5 = 0 -> [has |-> FALSE]
                               [] i % 5 = 1 -> [has |-> TRUE, base_fee |-> 0]
                               [] i % 5 = 2 -> [has |-> TRUE, base_fee |-> 1500]
                               [] OTHER     -> [has |-> TRUE, base_fee |-> 500],
         specialization  |-> IF i % 2 = 0 THEN "Cardiology" ELSE "Dermatology",
         clinicCity      |-> IF i % 2 = 0 THEN "Pune" ELSE "Mumbai",
         clinicState     |-> "Maharashtra" ]

searchTable(n) == [i \in 1..n |-> tableRow(i, n)]

SearchFilters ==
    LET all == [timezone |-> "UTC"]
    IN { all,
         all @@ [date |-> Ymd(2024, 8, 1)],
         all @@ [start_date |-> Ymd(2024, 8, 1), end_date |-> Ymd(2024, 8, 2)],
         all @@ [provider_id |-> "p1"],
         all @@ [appointment_type |-> "follow_up"],
         all @@ [min_duration |-> 30],
         all @@ [min_duration |-> 5],
         all @@ [specialization |-> "cardio"],
         all @@ [location |-> "pune"],
         all @@ [virtual_only |-> TRUE],
         all @@ [in_person_only |-> TRUE],
         all @@ [max_price |-> 0],
         all @@ [max_price |-> 500],
         all @@ [date |-> Ymd(2024, 8, 1), provider_id |-> "p1", max_price |-> 500] }

SearchLimits  == { 0, 1, 2, 100, 101 }
SearchOffsets == { 0, 1, 5 }

SearchDtos ==
    SearchFilters
        \cup { f @@ [limit |-> l] : f \in SearchFilters, l \in SearchLimits }
        \cup { f @@ [offset |-> o] : f \in SearchFilters, o \in SearchOffsets }
        \cup { f @@ [limit |-> l, offset |-> o] :
                 f \in SearchFilters, l \in SearchLimits, o \in SearchOffsets }

InitSearch ==
    /\ serverZone \in ServerZones
    /\ now \in Nows
    /\ availabilities = {}
    /\ appointmentSlots = {}
    /\ nextAvailabilityId = 1
    /\ requests = [p \in Procs |-> Idle]
    /\ budget = [requests |-> 0, bookings |-> 0]
    /\ GenIdle
    /\ AuthIdle
    /\ searchRows \in { searchTable(n) : n \in SearchTableSizes }
    /\ searchDto = NotRun
    /\ searchResult = NotRun

\* GET availability/search: the ValidationPipe, then searchAvailableSlots
Search ==
    /\ ~searchResult.run
    /\ \E dto \in SearchDtos :
         /\ searchDto' = [run |-> TRUE, dto |-> dto]
         /\ searchResult' =
              IF validSearchDto(dto)
              THEN [run |-> TRUE, outcome |-> "ok",
                    slots |-> searchAvailableSlots(searchRows, dto, now, serverZone)]
              ELSE [run |-> TRUE, outcome |-> "InvalidRequest", slots |-> <<>>]
    /\ UNCHANGED <<serverZone, searchRows, nonSearchVars>>

NextSearch == Search

-----------------------------------------------------------------------------
(* AuthService.login with the account lockout, LoginRateLimiterMiddleware  *)
(* and the refresh-token rotation.  Time is counted in minutes.            *)

\* failed attempts at which handleFailedLogin locks the account
LockThreshold == 5

\* length of the lock: 30 * 60 * 1000 ms
LockMinutes == 30

\* values of failedLoginAttempts and of the clock that are explored
MaxFailedLoginAttempts == 7
MaxClock == 60

\* the clock moves on
Tick(minutes) ==
    /\ now + minutes <= MaxClock
    /\ now' = now + minutes
    /\ UNCHANGED <<availabilities, appointmentSlots, nextAvailabilityId,
                   requests, budget, serverZone, nonStoreVars>>

\* handleFailedLogin: count the attempt, lock at the threshold
handleFailedLogin(account, nowDate) ==
    LET failedAttempts == account.failedLoginAttempts + 1
    IN [account EXCEPT
          !.failedLoginAttempts = failedAttempts,
          !.lockedUntil = IF failedAttempts >= LockThreshold
                          THEN nowDate + LockMinutes ELSE @]

resetFailedLoginAttempts(account) ==
    [account EXCEPT !.failedLoginAttempts = 0, !.lockedUntil = NoDate]

\* AuthService.login, one call run to its end
Login ==
    /\ provider.failedLoginAttempts < MaxFailedLoginAttempts
    /\ \E passwordValid \in BOOLEAN :
         LET locked == provider.lockedUntil # NoDate /\ provider.lockedUntil > now
             outcome ==
                 IF ~provider.isActive THEN "Forbidden"
                 ELSE IF provider.verificationStatus # "verified" THEN "Forbidden"
                 ELSE IF locked THEN "Locked"
                 ELSE IF ~passwordValid THEN "Unauthorized"
                 ELSE "ok"
             checked == provider.isActive /\ provider.verificationStatus = "verified"
                           /\ ~locked
             after == IF ~checked THEN provider
                      ELSE IF passwordValid THEN resetFailedLoginAttempts(provider)
                      ELSE handleFailedLogin(provider, now)
         IN /\ provider' = after
            /\ loginResult' = [run |-> TRUE, outcome |-> outcome,
                               passwordValid |-> passwordValid]
            /\ failedSince' =
                 IF ~checked THEN failedSince
                 ELSE IF passwordValid THEN 0
                 ELSE IF after.lockedUntil # provider.lockedUntil THEN 0
                 ELSE failedSince + 1
    /\ UNCHANGED <<serverZone, storeVars, loginAttemptsMap, letThrough,
                   refreshTokens, refreshCalls, refreshed,
                   genVars, searchVars>>

InitAuth ==
    /\ serverZone \in ServerZones
    /\ StoreIdle
    /\ GenIdle
    /\ SearchIdle
    /\ provider \in [ isActive : BOOLEAN,
                      verificationStatus : { "verified", "pending" },
                      failedLoginAttempts : { 0 },
                      lockedUntil : { NoDate } ]
    /\ loginResult = NotRun
    /\ failedSince = 0
    /\ loginAttemptsMap = {}
    /\ letThrough = <<>>
    /\ refreshTokens = {}
    /\ refreshCalls = <<>>
    /\ refreshed = <<>>

NextAuth ==
    \/ Login
    \/ Tick(LockMinutes \div 3)

\* lifetime of a refresh token: '7d'
RefreshTokenMinutes == 10080

\* refreshToken calls in one behaviour
MaxRefreshCalls == 3

\* jwtUtil.verifyRefreshToken and the findFirst of validateRefreshToken
validateRefreshToken(rows, token, nowDate) ==
    \E r \in rows : r.token = token /\ ~r.isRevoked /\ r.expiresAt > nowDate

\* the updateMany of rotateRefreshToken
revokeOldToken(rows, token) ==
    { IF r.token = token /\ ~r.isRevoked THEN [r EXCEPT !.isRevoked = TRUE]
      ELSE r : r \in rows }

\* createRefreshToken: a token with a fresh jti
createRefreshToken(rows, nowDate) ==
    rows \cup { [ token |-> Cardinality(rows) + 1, isRevoked |-> FALSE,
                  expiresAt |-> nowDate + RefreshTokenMinutes ] }

\* refreshToken, up to the provider lookup; token 0 is one that was never issued
RefreshValidate(p) ==
    /\ refreshCalls[p].pc \in { "idle", "done" }
    /\ budget.requests > 0
    /\ \E token \in { r.token : r \in refreshTokens } \cup { 0 } :
         LET valid == validateRefreshToken(refreshTokens, token, now)
         IN refreshCalls' = [refreshCalls EXCEPT ![p] =
              [ token |-> token,
                pc |-> IF valid /\ provider.isActive THEN "revoke" ELSE "done",
                outcome |-> IF valid /\ provider.isActive THEN "none"
                            ELSE "Unauthorized" ]]
    /\ budget' = [budget EXCEPT !.requests = @ - 1]
    /\ UNCHANGED <<serverZone, now, availabilities, appointmentSlots,
                   nextAvailabilityId, requests, provider, loginResult,
                   failedSince, loginAttemptsMap, letThrough, refreshTokens,
                   refreshed, genVars, searchVars>>

\* rotateRefreshToken: the old token is revoked
RefreshRevoke(p) ==
    /\ refreshCalls[p].pc = "revoke"
    /\ refreshTokens' = revokeOldToken(refreshTokens, refreshCalls[p].token)
    /\ refreshCalls' = [refreshCalls EXCEPT ![p].pc = "create"]
    /\ UNCHANGED <<serverZone, storeVars, provider, loginResult, failedSince,
                   loginAttemptsMap, letThrough, refreshed, genVars, searchVars>>

\* rotateRefreshToken: the new token is stored, and the call returns it
RefreshCreate(p) ==
    /\ refreshCalls[p].pc = "create"
    /\ refreshTokens' = createRefreshToken(refreshTokens, now)
    /\ refreshCalls' = [refreshCalls EXCEPT ![p].pc = "done", ![p].outcome = "ok"]
    /\ refreshed' = Append(refreshed, refreshCalls[p].token)
    /\ UNCHANGED <<serverZone, storeVars, provider, loginResult, failedSince,
                   loginAttemptsMap, letThrough, genVars, searchVars>>

\* one token issued by a login and still valid, one that has expired
InitRefresh ==
    /\ serverZone \in ServerZones
    /\ now = 0
    /\ availabilities = {}
    /\ appointmentSlots = {}
    /\ nextAvailabilityId = 1
    /\ requests = [p \in Procs |-> Idle]
    /\ budget = [requests |-> MaxRefreshCalls, bookings |-> 0]
    /\ GenIdle
    /\ SearchIdle
    /\ provider \in [ isActive : BOOLEAN, verificationStatus : { "verified" },
                      failedLoginAttempts : { 0 }, lockedUntil : { NoDate } ]
    /\ loginResult = NotRun
    /\ failedSince = 0
    /\ loginAttemptsMap = {}
    /\ letThrough = <<>>
    /\ refreshTokens =
          { [token |-> 1, isRevoked |-> FALSE, expiresAt |-> RefreshTokenMinutes],
            [token |-> 2, isRevoked |-> FALSE, expiresAt |-> 0] }
    /\ refreshCalls = [p \in Procs |->
                          [token |-> 0, pc |-> "idle", outcome |-> "none"]]
    /\ refreshed = <<>>

NextRefresh ==
    \/ \E p \in Procs : RefreshValidate(p)
    \/ \E p \in Procs : RefreshRevoke(p)
    \/ \E p \in Procs : RefreshCreate(p)

\* the window of the login limiter, in minutes (15 * 60 * 1000 ms)
WINDOW_MS == 15

MAX_ATTEMPTS == 5

\* login requests in one behaviour
MaxLoginRequests == 7

\* req.ip
Ips == { "10.0.0.1", "10.0.0.2" }

\* cleanupExpiredEntries: entries past their resetTime are deleted
cleanupExpiredEntries(map, nowMs) ==
    { entry \in map : ~(nowMs > entry.resetTime) }

\* use: the entry of ip after the request, and whether next() was called
use(map, ip, nowMs) ==
    LET cleaned == cleanupExpiredEntries(map, nowMs)
        found == { entry \in cleaned : entry.ip = ip }
        fresh == [ip |-> ip, count |-> 1, resetTime |-> nowMs + WINDOW_MS,
                  lastAttempt |-> nowMs]
    IN IF found = {}
       THEN [map |-> cleaned \cup { fresh }, next |-> TRUE]
       ELSE LET entry == CHOOSE e \in found : TRUE
            IN IF nowMs > entry.resetTime
               THEN [map |-> (cleaned \ found) \cup { fresh }, next |-> TRUE]
               ELSE IF entry.count >= MAX_ATTEMPTS
               THEN [map |-> cleaned, next |-> FALSE]
               ELSE [map |-> (cleaned \ found) \cup
                               { [entry EXCEPT !.count = @ + 1,
                                               !.lastAttempt = nowMs] },
                     next |-> TRUE]

\* one POST api/v1/provider/login passing through the middleware
LimiterUse ==
    /\ budget.requests > 0
    /\ \E ip \in Ips :
         LET after == use(loginAttemptsMap, ip, now)
         IN /\ loginAttemptsMap' = after.map
            /\ loginResult' = [run |-> TRUE, ip |-> ip,
                               outcome |-> IF after.next THEN "next"
                                           ELSE "TooManyRequests"]
            /\ letThrough' = IF after.next
                             THEN [letThrough EXCEPT ![ip] = Append(@, now)]
                             ELSE letThrough
    /\ budget' = [budget EXCEPT !.requests = @ - 1]
    /\ UNCHANGED <<serverZone, now, availabilities, appointmentSlots,
                   nextAvailabilityId, requests, provider, failedSince,
                   refreshTokens, refreshCalls, refreshed, genVars, searchVars>>

\* a server that has just started: the map is empty
InitLimiter ==
    /\ serverZone = "UTC"
    /\ now = 0
    /\ availabilities = {}
    /\ appointmentSlots = {}
    /\ nextAvailabilityId = 1
    /\ requests = [p \in Procs |-> Idle]
    /\ budget = [requests |-> MaxLoginRequests, bookings |-> 0]
    /\ GenIdle
    /\ SearchIdle
    /\ provider = NotRun
    /\ loginResult = NotRun
    /\ failedSince = 0
    /\ loginAttemptsMap = {}
    /\ letThrough = [ip \in Ips |-> <<>>]
    /\ refreshTokens = {}
    /\ refreshCalls = <<>>
    /\ refreshed = <<>>

NextLimiter ==
    \/ LimiterUse
    \/ Tick(WINDOW_MS \div 2)

-----------------------------------------------------------------------------
(* Slot generator: the operations applied to a drawn configuration         *)

InitGen ==
    /\ serverZone \in ServerZones
    /\ config \in Configs
    /\ validation = NotRun
    /\ daySlots = NotRun
    /\ totalSlots = NotRun
    /\ recurrence = NotRun
    /\ recurring = NotRun
    /\ newSlotList = <<>>
    /\ existingSlotList = <<>>
    /\ overlapResult = NotRun
    /\ overlapResultSwapped = NotRun
    /\ StoreIdle
    /\ SearchIdle
    /\ AuthIdle

Validate ==
    /\ ~validation.run
    /\ validation' = [run |-> TRUE] @@ validateSlotGeneration(config)
    /\ UNCHANGED <<serverZone, config, daySlots, totalSlots, recurrence, recurring,
                   overlapVars, nonGenVars>>

\* the operations run in the order Validate, GenerateDay, CalculateTotal,
\* GenerateRecurring; generation is applied to configurations that passed
\* validation, as createAvailability does
GenerateDay ==
    /\ validation.run /\ ~validation.threw /\ validation.errors = <<>>
    /\ ~daySlots.run
    /\ daySlots' = [run |-> TRUE] @@ generateSlotsForDay(config)
    /\ UNCHANGED <<serverZone, config, validation, totalSlots, recurrence, recurring,
                   overlapVars, nonGenVars>>

CalculateTotal ==
    /\ validation.run /\ ~validation.threw /\ validation.errors = <<>>
    /\ daySlots.run /\ ~totalSlots.run
    /\ totalSlots' = [run |-> TRUE, value |-> calculateTotalSlots(config)]
    /\ UNCHANGED <<serverZone, config, validation, daySlots, recurrence, recurring,
                   overlapVars, nonGenVars>>

GenerateRecurring ==
    /\ validation.run /\ ~validation.threw /\ validation.errors = <<>>
    /\ totalSlots.run /\ ~recurring.run
    /\ \E pattern \in Patterns, endDay \in EndDates :
          /\ pattern = "daily" =>
                endDay - config.date \div MinutesPerDay <= MaxDailySpan
          /\ recurrence' = [run |-> TRUE, pattern |-> pattern,
                            endDate |-> endDay * MinutesPerDay]
          /\ recurring' = [run |-> TRUE] @@
                generateRecurringSlots(config, pattern,
                                       endDay * MinutesPerDay, serverZone)
    /\ UNCHANGED <<serverZone, config, validation, daySlots, totalSlots,
                   overlapVars, nonGenVars>>

NextGen == Validate \/ GenerateDay \/ CalculateTotal \/ GenerateRecurring

-----------------------------------------------------------------------------
(* checkForOverlappingSlots applied to drawn slot lists                    *)

\* longest slot list drawn for either argument
MaxSlots == 2

\* GeneratedSlot values, by their two instants: slots that touch, nest and
\* overlap, a slot whose end is before its start, and one of Invalid Dates
OverlapSlots ==
    { [slotStartTime |-> 0,  slotEndTime |-> 30],
      [slotStartTime |-> 30, slotEndTime |-> 60],
      [slotStartTime |-> 0,  slotEndTime |-> 60],
      [slotStartTime |-> 15, slotEndTime |-> 45],
      [slotStartTime |-> 60, slotEndTime |-> 15],
      [slotStartTime |-> InvalidDate, slotEndTime |-> InvalidDate] }

SlotLists == UNION { [1..n -> OverlapSlots] : n \in 0..MaxSlots }

InitOverlap ==
    /\ serverZone = "UTC"
    /\ config = NotRun
    /\ validation = NotRun
    /\ daySlots = NotRun
    /\ totalSlots = NotRun
    /\ recurrence = NotRun
    /\ recurring = NotRun
    /\ newSlotList \in SlotLists
    /\ existingSlotList \in SlotLists
    /\ overlapResult = NotRun
    /\ overlapResultSwapped = NotRun
    /\ StoreIdle
    /\ SearchIdle
    /\ AuthIdle

CheckOverlap ==
    /\ ~overlapResult.run
    /\ overlapResult' =
          [run |-> TRUE,
           slots |-> checkForOverlappingSlots(newSlotList, existingSlotList)]
    /\ UNCHANGED <<serverZone, config, validation, daySlots, totalSlots,
                   recurrence, recurring, newSlotList, existingSlotList,
                   overlapResultSwapped, nonGenVars>>

CheckOverlapSwapped ==
    /\ ~overlapResultSwapped.run
    /\ overlapResultSwapped' =
          [run |-> TRUE,
           slots |-> checkForOverlappingSlots(existingSlotList, newSlotList)]
    /\ UNCHANGED <<serverZone, config, validation, daySlots, totalSlots,
                   recurrence, recurring, newSlotList, existingSlotList,
                   overlapResult, nonGenVars>>

NextOverlap == CheckOverlap \/ CheckOverlapSwapped

vars == <<serverZone, genVars, storeVars, searchVars, authVars>>

SpecOverlap == InitOverlap /\ [][NextOverlap]_vars

SpecGen == InitGen /\ [][NextGen]_vars

SpecStore == InitStore /\ [][NextStore]_vars

SpecConcurrent == InitConcurrent /\ [][NextConcurrent]_vars

SpecSearch == InitSearch /\ [][NextSearch]_vars

SpecAuth == InitAuth /\ [][NextAuth]_vars

SpecRefresh == InitRefresh /\ [][NextRefresh]_vars

SpecLimiter == InitLimiter /\ [][NextLimiter]_vars

-----------------------------------------------------------------------------
(* Properties of the slot generator                                        *)

Range(seq) == { seq[i] : i \in 1..Len(seq) }

\* C5: for every configuration that passes validateSlotGeneration,
\* calculateTotalSlots(config) equals the number of slots that
\* generateSlotsForDay(config) returns.
C5_TotalEqualsGenerated ==
    (totalSlots.run /\ daySlots.terminates)
        => totalSlots.value = Len(daySlots.slots)

\* C6: for every configuration that passes validateSlotGeneration,
\* generateSlotsForDay terminates, and the running civil time never passes
\* midnight back to the start of the day.
C6_TerminatesWithoutWrap ==
    daySlots.run => (daySlots.terminates /\ ~daySlots.wrapped)

ScenarioA(cfg) ==
    /\ cfg.startTime = <<9, 0>> /\ cfg.endTime = <<17, 0>>
    /\ cfg.slotDuration = 30 /\ cfg.breakDuration = 15

ScenarioAShape(slots, count) ==
    /\ Len(slots) = count
    /\ slots[1].startTime = <<9, 0>> /\ slots[1].endTime = <<9, 30>>
    /\ slots[count].startTime = <<16, 30>> /\ slots[count].endTime = <<17, 0>>
    /\ \A i \in 1..(count - 1) :
          /\ parseHHmm(slots[i + 1].startTime) - parseHHmm(slots[i].endTime) = 15
          /\ slots[i + 1].slotStartTime - slots[i].slotEndTime = 15

RECURSIVE RecurrenceDays(_, _, _)
RecurrenceDays(day, pattern, endDay) ==
    IF day > endDay THEN <<>>
    ELSE <<day>> \o
         RecurrenceDays(CASE pattern = "daily"   -> day + 1
                          [] pattern = "weekly"  -> day + 7
                          [] pattern = "monthly" -> PlusMonthsDay(day, 1),
                        pattern, endDay)

RECURSIVE SlotsOfDays(_, _)
SlotsOfDays(cfg, days) ==
    IF days = <<>> THEN <<>>
    ELSE generateSlotsForDay(
             [cfg EXCEPT !.date = Head(days) * MinutesPerDay]).slots
         \o SlotsOfDays(cfg, Tail(days))

\* C8: generateRecurringSlots returns the concatenation, in date order, of
\* one full day's slot set for config.date and for every date reached by
\* repeatedly adding the pattern step that is not after endDate (endDate
\* included); weekly from 2024-08-01 to 2024-08-15 gives 3 occurrences.
C8_RecurringCoversEveryDate ==
    (recurring.run /\ recurring.terminates) =>
        LET days == RecurrenceDays(config.date \div MinutesPerDay,
                                   recurrence.pattern,
                                   recurrence.endDate \div MinutesPerDay)
        IN /\ recurring.slots = SlotsOfDays(config, days)
           /\ ( /\ config.date = Ymd(2024, 8, 1) * MinutesPerDay
                /\ recurrence.endDate = Ymd(2024, 8, 15) * MinutesPerDay
                /\ recurrence.pattern = "weekly" )
              => Len(recurring.slots) = 3 * Len(daySlots.slots)

\* C10: validateSlotGeneration never throws, and the list it returns holds
\* every validation error that applies, the format errors included.
C10_ValidateNeverThrows ==
    validation.run =>
        /\ ~validation.threw
        /\ ~isValidHHmm(config.startTime) => ErrStart \in Range(validation.errors)
        /\ ~isValidHHmm(config.endTime) => ErrEnd \in Range(validation.errors)
        /\ config.slotDuration <= 0 => ErrSlot \in Range(validation.errors)
        /\ config.breakDuration < 0 => ErrBreak \in Range(validation.errors)

-----------------------------------------------------------------------------
(* Properties of the availability store                                    *)

\* C1: in every state reached by createAvailability, updateSlot and
\* deleteSlot calls executed one at a time, no two persisted non-cancelled
\* slots of the same provider have overlapping [start, end) UTC intervals.
C1_NoOverlappingSlots ==
    \A s \in appointmentSlots : \A t \in appointmentSlots :
        ( /\ s.id # t.id
          /\ s.providerId = t.providerId
          /\ s.status # "cancelled" /\ t.status # "cancelled" )
        => ~slotsOverlap(s, t)

CreatedOk(r) == r.op = "create" /\ r.pc = "done" /\ r.outcome = "ok"

\* C2: two createAvailability requests for the same provider and day with
\* overlapping windows that run concurrently never both succeed.
C2_ConcurrentCreatesExclude ==
    \A p \in Procs : \A q \in Procs \ {p} :
        LET a == requests[p]
            b == requests[q]
        IN ~( /\ CreatedOk(a) /\ CreatedOk(b)
              /\ a.raced /\ b.raced
              /\ a.providerId = b.providerId
              /\ a.dto.date = b.dto.date
              /\ \E i \in 1..Len(a.slots) : \E j \in 1..Len(b.slots) :
                    slotsOverlap(a.slots[i], b.slots[j]) )

\* C3: a createAvailability call that fails (NotFound, InvalidRequest,
\* Conflict or a persistence error at either write) leaves the store holding
\* exactly the records and slot rows it held before the call; a call that
\* succeeds adds the record together with all its generated slot rows, and
\* every slot row has its record.
C3_CreateIsAllOrNothing ==
    [][ \A p \in Procs :
          ( /\ requests'[p] # requests[p]
            /\ requests'[p].op = "create"
            /\ requests'[p].pc = "done" )
          =>
          LET r == requests'[p] IN
          /\ r.outcome # "ok" =>
                /\ availabilities' = r.before.availabilities
                /\ appointmentSlots' = r.before.appointmentSlots
          /\ r.outcome = "ok" =>
                /\ Cardinality(availabilities' \ r.before.availabilities) = 1
                /\ \A a \in availabilities' \ r.before.availabilities :
                      Cardinality({ s \in appointmentSlots' :
                                       s.availabilityId = a.id }) = Len(r.slots)
          /\ \A s \in appointmentSlots' :
                \E a \in availabilities' : a.id = s.availabilityId
      ]_vars

C3_Witness ==
    \E p \in Procs :
        /\ requests[p].op = "create" /\ requests[p].pc = "done"
        /\ requests[p].outcome = "PersistenceError"
        /\ requests[p].failAt = "slots"
        /\ Len(requests[p].slots) > 0

\* C4: a createAvailability request, single-day or recurring, any of whose
\* generated slots overlaps an already persisted slot of the same provider
\* fails with Conflict, and the reported count is the number of generated
\* slots that overlap at least one persisted slot.
C4_OverlapIsConflict ==
    \A p \in Procs :
        LET r == requests[p] IN
        ( /\ r.op = "create" /\ r.pc = "done"
          /\ r.outcome \notin { "NotFound", "InvalidRequest", "InternalError" } )
        =>
        LET generated == generateSlots(r.dto, now, serverZone).slots
            persisted == { s \in r.before.appointmentSlots :
                               s.providerId = r.providerId }
            overlapping == { i \in 1..Len(generated) :
                               \E s \in persisted : slotsOverlap(generated[i], s) }
        IN overlapping # {} =>
              /\ r.outcome = "Conflict"
              /\ r.count = Cardinality(overlapping)

\* C11: createAvailability with a timezone name that does not resolve in the
\* zone database fails with InvalidRequest, and no availability record with
\* such a timezone is ever persisted.
C11_UnknownZoneIsInvalidRequest ==
    /\ \A p \in Procs :
          LET r == requests[p] IN
          ( /\ r.op = "create" /\ r.pc = "done"
            /\ r.providerId \in Providers
            /\ ~resolves(r.dto.timezone) )
          => r.outcome = "InvalidRequest"
    /\ \A a \in availabilities : resolves(a.timezone)

\* C12: an updateSlot call fails with NotFound when the slot does not exist
\* or belongs to a different provider, and with Conflict when the slot's
\* status is booked; in both cases the slot table is left as it was.
C12_UpdateRejections ==
    [][ \A p \in Procs :
          ( /\ requests'[p] # requests[p]
            /\ requests'[p].op = "update"
            /\ requests'[p].pc = "done" )
          =>
          LET r == requests'[p]
              target == { s \in r.before.appointmentSlots :
                            s.id = r.slotId /\ s.providerId = r.providerId }
          IN /\ target = {} => r.outcome = "NotFound"
             /\ (\E s \in target : s.status = "booked") => r.outcome = "Conflict"
             /\ r.outcome \in { "NotFound", "Conflict" } =>
                   appointmentSlots' = r.before.appointmentSlots
      ]_vars

C12_Witness ==
    \E p \in Procs :
        /\ requests[p].op = "update" /\ requests[p].pc = "done"
        /\ requests[p].outcome = "Conflict"
        /\ \E s \in appointmentSlots :
              s.id = requests[p].slotId /\ s.status = "booked"

\* C13: no step of a deleteSlot call, with or without deleteRecurringSeries,
\* removes or changes a booked slot: a call that targets a booked slot ends
\* with Conflict, and every slot that is booked before a step of a delete
\* call is in the store, unchanged, after it.
C13_DeleteKeepsBookedSlots ==
    [][ \A p \in Procs :
          ( /\ requests'[p] # requests[p]
            /\ requests'[p].op = "delete" )
          =>
          LET r == requests'[p] IN
          /\ \A s \in appointmentSlots :
                s.status = "booked" => s \in appointmentSlots'
          /\ ( /\ r.pc = "done"
               /\ \E s \in r.before.appointmentSlots :
                     /\ s.id = r.slotId /\ s.providerId = r.providerId
                     /\ s.status = "booked" )
             => r.outcome = "Conflict"
      ]_vars

\* a series deletion has finished while a sibling slot is booked
C13_Witness ==
    \E p \in Procs :
        /\ requests[p].op = "delete" /\ requests[p].pc = "done"
        /\ requests[p].outcome = "ok" /\ requests[p].deleteRecurring
        /\ \E a \in availabilities :
              a.id = requests[p].availabilityId /\ a.status = "cancelled"
        /\ \E s \in appointmentSlots :
              /\ s.availabilityId = requests[p].availabilityId
              /\ s.status = "booked"

\* C14: a successful deleteSlot with deleteRecurringSeries on a slot of a
\* recurring availability record removes every non-booked slot of that record
\* and sets the record's status to cancelled; every other successful
\* deleteSlot removes exactly the targeted slot row and leaves the records
\* as they were.
C14_DeleteSeriesOrSingle ==
    [][ \A p \in Procs :
          ( /\ requests'[p] # requests[p]
            /\ requests'[p].op = "delete"
            /\ requests'[p].pc = "done"
            /\ requests'[p].outcome = "ok" )
          =>
          LET r      == requests'[p]
              before == r.before
              owner  == CHOOSE a \in before.availabilities :
                            a.id = r.availabilityId
          IN IF r.deleteRecurring /\ owner.isRecurring
             THEN /\ appointmentSlots' =
                        { s \in before.appointmentSlots :
                             s.availabilityId # owner.id \/ s.status = "booked" }
                  /\ availabilities' =
                        (before.availabilities \ {owner})
                            \cup { [owner EXCEPT !.status = "cancelled"] }
             ELSE /\ appointmentSlots' =
                        { s \in before.appointmentSlots : s.id # r.slotId }
                  /\ Cardinality(before.appointmentSlots \ appointmentSlots') = 1
                  /\ availabilities' = before.availabilities
      ]_vars

\* a series deletion has removed several slots and cancelled the record
C14_Witness ==
    \E p \in Procs :
        /\ requests[p].op = "delete" /\ requests[p].pc = "done"
        /\ requests[p].outcome = "ok" /\ requests[p].deleteRecurring
        /\ Cardinality(requests[p].before.appointmentSlots \ appointmentSlots) > 1
        /\ \E a \in availabilities :
              /\ a.id = requests[p].availabilityId
              /\ a.isRecurring /\ a.status = "cancelled"

\* C15: for every combination of filters, search returns only slots whose
\* status is available, in ascending order of UTC slot start time.
C15_SearchAvailableAscending ==
    (searchResult.run /\ searchResult.outcome = "ok") =>
        LET slots == searchResult.slots IN
        /\ \A i \in 1..Len(slots) :
              \E k \in 1..Len(searchRows) :
                 /\ searchRows[k].id = slots[i].id
                 /\ searchRows[k].status = "available"
        /\ \A i \in 1..(Len(slots) - 1) :
              slots[i].slot_start_time <= slots[i + 1].slot_start_time

\* several slots are returned around a slot that is not available
C15_Witness ==
    /\ searchResult.run /\ searchResult.outcome = "ok"
    /\ Len(searchResult.slots) > 2
    /\ \E k \in 1..Len(searchRows) :
          /\ searchRows[k].status = "booked"
          /\ searchResult.slots[1].slot_start_time < searchRows[k].slotStartTime
          /\ searchRows[k].slotStartTime
                < searchResult.slots[Len(searchResult.slots)].slot_start_time

\* C16: search returns at most limit results, taken from the positions
\* offset .. offset+limit-1 of the ordered list of slots that match the
\* query, with limit 50 and offset 0 when omitted, and no request obtains
\* more than 100 results.
C16_SearchPageWithinLimit ==
    searchResult.run =>
        LET dto    == searchDto.dto
            slots  == searchResult.slots
            limit  == IF "limit" \in DOMAIN dto THEN dto.limit ELSE 50
            offset == IF "offset" \in DOMAIN dto THEN dto.offset ELSE 0
            listed == SortSeq(SelectSeq(searchRows, LAMBDA r :
                                  whereMatches(r, dto, now, serverZone)),
                              precedes)
            page   == { listed[k].id :
                          k \in (offset + 1)..Min2(offset + limit, Len(listed)) }
        IN /\ Len(slots) <= 100
           /\ searchResult.outcome = "ok" =>
                 /\ Len(slots) <= limit
                 /\ \A i \in 1..Len(slots) : slots[i].id \in page

\* a full page of 100 is returned while more slots match
C16_Witness ==
    /\ searchResult.run /\ searchResult.outcome = "ok"
    /\ "limit" \in DOMAIN searchDto.dto
    /\ Len(searchResult.slots) = searchDto.dto.limit
    /\ Len(searchResult.slots) = 100
    /\ Cardinality({ k \in 1..Len(searchRows) :
                        searchRows[k].status = "available" }) > 100

\* C17: whenever a failed provider login sets lockedUntil, it is set 30
\* minutes ahead and the account has had at least 5 failed password attempts
\* since its last successful login and since its previous lock was set; a
\* successful login leaves failedLoginAttempts at 0 and lockedUntil cleared.
C17_LockOnlyAfterFiveFailures ==
    [][ /\ ( /\ provider'.lockedUntil # provider.lockedUntil
             /\ provider'.lockedUntil # NoDate )
           => /\ provider'.lockedUntil = now + LockMinutes
              /\ failedSince + 1 >= 5
        /\ (loginResult'.run /\ loginResult'.outcome = "ok")
           => /\ provider'.failedLoginAttempts = 0
              /\ provider'.lockedUntil = NoDate
      ]_vars

\* C18: for every refresh token T at most one refreshToken call presenting T
\* ever succeeds, also when calls presenting T run concurrently, and a token
\* that a successful call presented is revoked.
C18_RefreshTokenUsedOnce ==
    \A i \in 1..Len(refreshed) :
        /\ \A j \in 1..Len(refreshed) : refreshed[i] = refreshed[j] => i = j
        /\ \A r \in refreshTokens : r.token = refreshed[i] => r.isRevoked

\* C19: for every client IP and every period of 15 minutes, the login
\* limiter lets at most 5 login requests of that IP through to the handler.
C19_FivePerFifteenMinutes ==
    \A ip \in DOMAIN letThrough :
        \A i \in 1..Len(letThrough[ip]) :
            Cardinality({ j \in 1..Len(letThrough[ip]) :
                            /\ letThrough[ip][j] >= letThrough[ip][i]
                            /\ letThrough[ip][j] < letThrough[ip][i] + 15 }) <= 5

\* C20: every slot returned by generateSlotsForDay or generateRecurringSlots
\* lasts exactly slotDuration minutes: its slotEndTime is slotDuration
\* minutes after its slotStartTime (both UTC instants).
C20_SlotLastsSlotDuration ==
    /\ (daySlots.run /\ daySlots.terminates) =>
          \A i \in 1..Len(daySlots.slots) :
              daySlots.slots[i].slotEndTime - daySlots.slots[i].slotStartTime
                  = config.slotDuration
    /\ (recurring.run /\ recurring.terminates) =>
          \A i \in 1..Len(recurring.slots) :
              recurring.slots[i].slotEndTime - recurring.slots[i].slotStartTime
                  = config.slotDuration

\* C21: the sequence returned by generateSlotsForDay is ordered by strictly
\* ascending start instant, no two of its slots overlap, and every slot but
\* the last ends breakDuration minutes before the next one starts.
C21_DaySlotsAscendingDisjoint ==
    (daySlots.run /\ daySlots.terminates) =>
        LET slots == daySlots.slots
        IN /\ \A i \in 1..(Len(slots) - 1) :
                 /\ slots[i].slotStartTime < slots[i + 1].slotStartTime
                 /\ slots[i].slotEndTime + config.breakDuration
                        = slots[i + 1].slotStartTime
           /\ \A i, j \in 1..Len(slots) :
                 i # j => ~( /\ slots[i].slotStartTime < slots[j].slotEndTime
                             /\ slots[j].slotStartTime < slots[i].slotEndTime )

\* C22: every slot returned by generateSlotsForDay lies inside the window
\* (startTime <= slot start, slot end <= endTime, as civil times and as
\* instants of the date), and the window 09:00-09:40 with duration 30 and
\* break 0 yields exactly the slot 09:00-09:30.
C22_DaySlotsInsideWindow ==
    (daySlots.run /\ daySlots.terminates) =>
        /\ \A i \in 1..Len(daySlots.slots) :
              LET slot == daySlots.slots[i]
              IN /\ parseHHmm(config.startTime) <= parseHHmm(slot.startTime)
                 /\ parseHHmm(slot.endTime) <= parseHHmm(config.endTime)
                 /\ toUTC(config.date, config.startTime, config.timezone)
                        <= slot.slotStartTime
                 /\ slot.slotEndTime
                        <= toUTC(config.date, config.endTime, config.timezone)
        /\ ( /\ config.startTime = <<9, 0>> /\ config.endTime = <<9, 40>>
             /\ config.slotDuration = 30 /\ config.breakDuration = 0 )
           => /\ Len(daySlots.slots) = 1
              /\ daySlots.slots[1].startTime = <<9, 0>>
              /\ daySlots.slots[1].endTime = <<9, 30>>

\* C23: every config for which validateSlotGeneration returns an empty list
\* has endTime strictly after startTime, slotDuration > 0, breakDuration >= 0
\* and slotDuration at most the window length in minutes; in particular a
\* window with startTime equal to endTime is rejected.
C23_AcceptedConfigIsWellFormed ==
    (validation.run /\ ~validation.threw /\ validation.errors = <<>>) =>
        /\ parseHHmm(config.endTime) > parseHHmm(config.startTime)
        /\ config.startTime # config.endTime
        /\ config.slotDuration > 0
        /\ config.breakDuration >= 0
        /\ config.slotDuration
              <= parseHHmm(config.endTime) - parseHHmm(config.startTime)

\* an accepted config whose slot fills the window exactly
C23_Witness ==
    /\ validation.run /\ ~validation.threw /\ validation.errors = <<>>
    /\ config.slotDuration
          = parseHHmm(config.endTime) - parseHHmm(config.startTime)

\* C24: checkForOverlappingSlots(newSlots, existingSlots) returns exactly the
\* new slots n for which some existing slot e has n.start < e.end and
\* e.start < n.end, once each and in input order; a new slot that only
\* touches existing slots is not reported.
C24_OverlapReportIsExact ==
    overlapResult.run =>
        LET hit(n) == \E j \in 1..Len(existingSlotList) :
                         /\ InvalidDate \notin
                               { n.slotStartTime, n.slotEndTime,
                                 existingSlotList[j].slotStartTime,
                                 existingSlotList[j].slotEndTime }
                         /\ n.slotStartTime < existingSlotList[j].slotEndTime
                         /\ existingSlotList[j].slotStartTime < n.slotEndTime
            hits == { i \in 1..Len(newSlotList) : hit(newSlotList[i]) }
            nth(k) == CHOOSE i \in hits :
                         Cardinality({ j \in hits : j < i }) = k - 1
        IN /\ Len(overlapResult.slots) = Cardinality(hits)
           /\ \A k \in 1..Len(overlapResult.slots) :
                 overlapResult.slots[k] = newSlotList[nth(k)]

\* one new slot overlaps an existing slot and is reported, another only
\* touches it and is not
C24_Witness ==
    /\ overlapResult.run
    /\ Len(newSlotList) = 2
    /\ Len(overlapResult.slots) = 1
    /\ \E i \in 1..2, j \in 1..Len(existingSlotList) :
          /\ newSlotList[i].slotEndTime = existingSlotList[j].slotStartTime
          /\ newSlotList[i] # overlapResult.slots[1]

\* C25: overlap detection is symmetric: a pair of slots conflicts when the
\* first list is checked against the second exactly when it conflicts with
\* the lists swapped, so one check returns nothing exactly when the other
\* returns nothing.
C25_OverlapIsSymmetric ==
    (overlapResult.run /\ overlapResultSwapped.run) =>
        /\ (overlapResult.slots = <<>>) <=> (overlapResultSwapped.slots = <<>>)
        /\ \A i \in 1..Len(newSlotList), j \in 1..Len(existingSlotList) :
              slotsOverlap(newSlotList[i], existingSlotList[j])
                 <=> slotsOverlap(existingSlotList[j], newSlotList[i])
        /\ \A i \in 1..Len(overlapResult.slots) :
              \E j \in 1..Len(overlapResultSwapped.slots) :
                 slotsOverlap(overlapResultSwapped.slots[j], overlapResult.slots[i])
        /\ \A j \in 1..Len(overlapResultSwapped.slots) :
              \E i \in 1..Len(overlapResult.slots) :
                 slotsOverlap(overlapResult.slots[i], overlapResultSwapped.slots[j])

\* both checks ran and found a conflict between slots that are not equal
C25_Witness ==
    /\ overlapResult.run /\ overlapResultSwapped.run
    /\ overlapResult.slots # <<>>
    /\ \E i \in 1..Len(overlapResult.slots) :
          \A j \in 1..Len(overlapResultSwapped.slots) :
             overlapResult.slots[i] # overlapResultSwapped.slots[j]

\* C26: after a successful updateSlot the slot's status is available, blocked
\* or cancelled and never booked; a patch whose status is outside these three
\* leaves the stored status as it was; and updateSlot changes neither the
\* slot's interval, provider or owning record, nor any other row.  Stated
\* for calls that are not interleaved with a booking; a booking between the
\* check and the write of a call is the subject of C29.
C26_UpdateStatusWhitelist ==
    [][ \A p \in Procs :
          ( /\ requests[p].pc = "update"
            /\ requests'[p].pc = "done"
            /\ requests'[p].outcome = "ok" )
          =>
          LET r == requests[p] IN
          /\ availabilities' = availabilities
          /\ \A s \in appointmentSlots :
                s.id # r.slotId => s \in appointmentSlots'
          /\ \A s \in appointmentSlots :
                s.id = r.slotId =>
                  \E t \in appointmentSlots' :
                     /\ t.id = s.id
                     /\ t.status \in { "available", "blocked", "cancelled" }
                     /\ r.patch.status \notin { "available", "blocked", "cancelled" }
                           => t.status = s.status
                     /\ t.slotStartTime = s.slotStartTime
                     /\ t.slotEndTime = s.slotEndTime
                     /\ t.providerId = s.providerId
                     /\ t.availabilityId = s.availabilityId
          /\ Cardinality(appointmentSlots') = Cardinality(appointmentSlots)
      ]_vars

\* a successful update whose patch asked for booked: the slot was relabelled
\* and kept its status
C26_Witness ==
    \E p \in Procs :
        /\ requests[p].op = "update" /\ requests[p].pc = "done"
        /\ requests[p].outcome = "ok"
        /\ requests[p].patch.status = "booked"
        /\ \E s \in appointmentSlots :
              /\ s.id = requests[p].slotId
              /\ s.appointmentType = "follow_up"
              /\ s.status = "available"

\* C27: when a search supplies max_price, whatever its value from 0 upward,
\* every returned slot belongs to a record without pricing data or has
\* pricing.base_fee <= max_price.
C27_MaxPriceBoundsBaseFee ==
    ( /\ searchResult.run /\ searchResult.outcome = "ok"
      /\ "max_price" \in DOMAIN searchDto.dto )
    => \A i \in 1..Len(searchResult.slots) :
          \/ ~searchResult.slots[i].pricing.has
          \/ searchResult.slots[i].pricing.base_fee <= searchDto.dto.max_price

\* C28: a search with limit L and offset O returns exactly the elements at
\* positions O .. O+L-1 of the list of all slots that match every supplied
\* filter, the in-memory ones included, in ascending order of start time.
C28_PageOfFilteredList ==
    (searchResult.run /\ searchResult.outcome = "ok") =>
        LET dto    == searchDto.dto
            slots  == searchResult.slots
            limit  == IF "limit" \in DOMAIN dto THEN dto.limit ELSE 50
            offset == IF "offset" \in DOMAIN dto THEN dto.offset ELSE 0
            matching == SortSeq(SelectSeq(searchRows, LAMBDA r :
                                    /\ whereMatches(r, dto, now, serverZone)
                                    /\ memoryFilters(r, dto)),
                                precedes)
            last   == Min2(offset + limit, Len(matching))
        IN /\ Len(slots) = IF last > offset THEN last - offset ELSE 0
           /\ \A i \in 1..Len(slots) :
                 i <= last - offset => slots[i].id = matching[offset + i].id

\* C29: once the booking flow has turned a slot to booked, also between the
\* status check and the write of an updateSlot or deleteSlot call in flight,
\* no write of such a call deletes the slot or changes its status or
\* appointment type.
C29_WritesSpareBookedSlots ==
    [][ \A p \in Procs :
          ( /\ requests'[p] # requests[p]
            /\ requests[p].pc \in { "update", "delete", "deleteMany", "cancel" } )
          => \A s \in appointmentSlots :
                s.status = "booked" => s \in appointmentSlots'
      ]_vars

\* C30: deleting a recurring series is all-or-nothing: in no reachable state,
\* the one left by a failure between the two writes included, have the
\* non-booked slots of a record been removed by a series deletion while the
\* record's status is not cancelled.
C30_SeriesDeletionIsAtomic ==
    \A p \in Procs :
        LET r == requests[p] IN
        ( /\ r.op = "delete"
          /\ \/ r.pc = "cancel"
             \/ /\ r.pc = "done"
                /\ r.outcome \in { "ok", "PersistenceError" }
                /\ r.deleteRecurring
                /\ \E a \in availabilities :
                      a.id = r.availabilityId /\ a.isRecurring )
        => \A a \in availabilities :
              a.id = r.availabilityId => a.status = "cancelled"

\* C9: a recurring createAvailability without recurrence_end_date generates
\* slots up to the date 3 months after the availability window's start date.
C9_DefaultHorizonFromStart ==
    \A p \in Procs :
        LET r == requests[p] IN
        ( /\ CreatedOk(r)
          /\ r.dto.is_recurring /\ r.dto.recurrence_pattern # NoPattern
          /\ r.dto.recurrence_end_date = NoDate )
        =>
        r.slots = generateRecurringSlots(
                      configOf(r.dto), r.dto.recurrence_pattern,
                      plusLocal(r.dto.date * MinutesPerDay, serverZone, "months", 3),
                      serverZone).slots

====
